---- MODULE Spec2Model ----
(***************************************************************************)
(* Academic calendar generator: the 52-week classification of              *)
(* src/lib/calendar-utils.ts, driven by the Home page handlers, and the    *)
(* Excel export of src/lib/excel-utils.ts, driven by the calendar view.    *)
(*                                                                         *)
(* A Date is its local calendar day, counted in days since 1970-01-01.     *)
(* Date objects that the generator passes to date-fns live in a heap (a    *)
(* sequence of day numbers, a reference is an index), so that aliasing     *)
(* between the config and the generated weeks is part of the model.        *)
(* T | null and optional fields are sequences of length at most one.       *)
(***************************************************************************)
EXTENDS Integers, Sequences, FiniteSets, TLC

VARIABLES
    formConfig,     \* CalendarForm: const [config, setConfig] = useState(...)
    calendarWeeks,  \* Home: useState<CalendarWeek[] | null>(null)
    config,         \* Home: useState<CalendarConfig | null>(null)
    isGenerating,   \* Home: useState(false)
    lastAlert,      \* the message of the last window.alert
    visibleWeeks,   \* CalendarView: useState<number>(52)
    aiSuggestion,   \* CalendarForm: useState<string | null>(null)
    isLoading,      \* CalendarForm: useState(false)
    aiRequests,     \* the requests to /api/ai, in call order
    exports,        \* the calls of exportToExcel, in call order
    saveAsCalls,    \* the calls of file-saver's saveAs, in call order
    caught          \* the errors CalendarView.handleExport has caught

vars == <<formConfig, calendarWeeks, config, isGenerating, lastAlert, visibleWeeks,
          aiSuggestion, isLoading, aiRequests, exports, saveAsCalls, caught>>

null == <<>>
Some(x) == <<x>>
Val(opt) == opt[1]

(***************************************************************************)
(* Dates                                                                   *)
(***************************************************************************)

\* new Date(year, monthIndex, day): local midnight of a civil date
NewDate(year, monthIndex, day) ==
    LET m   == monthIndex + 1
        y   == IF m <= 2 THEN year - 1 ELSE year
        era == y \div 400
        yoe == y - era * 400
        mp  == IF m > 2 THEN m - 3 ELSE m + 9
        doy == (153 * mp + 2) \div 5 + day - 1
        doe == yoe * 365 + yoe \div 4 - yoe \div 100 + doy
    IN  era * 146097 + doe - 719468

\* the civil fields of a Date (getFullYear, getMonth, getDate)
civil(date) ==
    LET z   == date + 719468
        era == z \div 146097
        doe == z - era * 146097
        yoe == (doe - doe \div 1460 + doe \div 36524 - doe \div 146096) \div 365
        doy == doe - (365 * yoe + yoe \div 4 - yoe \div 100)
        mp  == (5 * doy + 2) \div 153
        d   == doy - (153 * mp + 2) \div 5 + 1
        m   == IF mp < 10 THEN mp + 3 ELSE mp - 9
        y   == yoe + era * 400 + (IF m <= 2 THEN 1 ELSE 0)
    IN  [year |-> y, month |-> m - 1, day |-> d]

\* The time value of a Date lies within 100,000,000 days of 1970-01-01; a
\* Date computed outside that range is an Invalid Date.
maxDateDay == 100000000
isValid(date) == -maxDateDay <= date /\ date <= maxDateDay

\* Date.prototype.getDay: 0 = Sunday .. 6 = Saturday (1970-01-01 was a Thursday)
getDay(date) == (date + 4) % 7

MonthAbbr == <<"Jan", "Feb", "Mar", "Apr", "May", "Jun",
               "Jul", "Aug", "Sep", "Oct", "Nov", "Dec">>

\* date-fns format(date, 'd-MMM')
format_d_MMM(date) ==
    LET c == civil(date) IN ToString(c.day) \o "-" \o MonthAbbr[c.month + 1]

\* date-fns format(date, 'dd-MMM') and format(date, 'yyyy')
format_dd_MMM(date) ==
    LET c == civil(date)
    IN  (IF c.day < 10 THEN "0" ELSE "") \o ToString(c.day) \o "-"
            \o MonthAbbr[c.month + 1]
format_yyyy(date) == ToString(civil(date).year)

\* addDays as a library that moves the Date it is given (in place) would do it
addDays_inPlace(heap, date, amount) ==
    [heap |-> [heap EXCEPT ![date] = @ + amount], date |-> date]

\* date-fns addDays(date, amount): clones the date and moves the clone, the
\* argument is left alone.  Returns the heap after the call and the
\* reference of the returned Date.
addDays(heap, date, amount) ==
    [heap |-> Append(heap, heap[date] + amount), date |-> Len(heap) + 1]

\* addWeeks with the amount taken as days
addWeeks_asDays(heap, date, amount) == addDays(heap, date, amount)

\* date-fns addWeeks(date, amount) = addDays(date, amount * 7)
addWeeks(heap, date, amount) == addDays(heap, date, amount * 7)

(***************************************************************************)
(* WeekStatus variants                                                     *)
(***************************************************************************)

Lecture(sem, week)       == [type |-> "lecture", semesterNumber |-> sem, weekNumber |-> week]
Orientation              == [type |-> "orientation"]
DeadWeek                 == [type |-> "deadWeek", label |-> "DW"]
Exam                     == [type |-> "exam", label |-> "EX"]
ExamEnd                  == [type |-> "examEnd", label |-> "EX-END"]
Vacation                 == [type |-> "vacation", label |-> "Vaca."]
IndustrialTraining(week) == [type |-> "industrialTraining", label |-> "IT", weekNumber |-> week]
Graduation               == [type |-> "graduation", label |-> "Graduation"]

(***************************************************************************)
(* determineWeekStatus                                                     *)
(***************************************************************************)

\* the first semester's end without its vacation weeks
firstSemEndWeek_noVacation(cfg) ==
    cfg.firstSemester.weeksCount + cfg.firstSemester.deadWeeks +
    cfg.firstSemester.examWeeks

firstSemEndWeek(cfg) ==
    cfg.firstSemester.weeksCount + cfg.firstSemester.deadWeeks +
    cfg.firstSemester.examWeeks + cfg.firstSemester.vacationWeeks

\* the second semester's first week read from secondSemester.startDate
secondSemStartWeek_fromStartDate(cfg) ==
    ((cfg.secondSemester.startDate - cfg.firstSemester.startDate) \div 7) + 1

secondSemStartWeek(cfg) == firstSemEndWeek(cfg) + 1

\* the second-semester lecture block one week longer
secondSemLectureEndWeek_plusOne(cfg) ==
    secondSemStartWeek(cfg) + cfg.secondSemester.weeksCount

secondSemLectureEndWeek(cfg) ==
    secondSemStartWeek(cfg) + cfg.secondSemester.weeksCount - 1

\* the second-semester dead weeks left out
secondSemDeadWeekEnd_noDead(cfg) == secondSemLectureEndWeek(cfg)

secondSemDeadWeekEnd(cfg) ==
    secondSemLectureEndWeek(cfg) + cfg.secondSemester.deadWeeks

\* the second-semester exam block one week longer
secondSemExamWeekEnd_plusOne(cfg) ==
    secondSemDeadWeekEnd(cfg) + cfg.secondSemester.examWeeks + 1

secondSemExamWeekEnd(cfg) ==
    secondSemDeadWeekEnd(cfg) + cfg.secondSemester.examWeeks

\* batchKey === config.batches[0]
isFirstBatch(cfg, batchKey) == batchKey = cfg.batches[1]

\* batchKey === config.batches[config.batches.length - 1]
isLastBatch(cfg, batchKey) == batchKey = cfg.batches[Len(cfg.batches)]

\* the orientation check without the test for the last batch
isOrientationWeek_anyBatch(weekIdx, cfg, batchKey) ==
    /\ weekIdx = secondSemStartWeek(cfg)
    /\ cfg.secondSemester.includeOrientation

\* the condition of the orientation check
isOrientationWeek(weekIdx, cfg, batchKey) ==
    /\ weekIdx = secondSemStartWeek(cfg)
    /\ isLastBatch(cfg, batchKey)
    /\ cfg.secondSemester.includeOrientation

\* the training check without the test for the first batch
isIndustrialTraining_anyBatch(cfg, batchKey) == cfg.includeIndustrialTraining

\* the condition under which second-semester lecture weeks are training weeks
isIndustrialTraining(cfg, batchKey) ==
    isFirstBatch(cfg, batchKey) /\ cfg.includeIndustrialTraining

\* the second-semester block with a zero-based week number
secondSemLectureStatus_zeroBased(weekIdx, cfg, batchKey) ==
    IF isIndustrialTraining(cfg, batchKey)
    THEN IndustrialTraining(weekIdx - secondSemStartWeek(cfg))
    ELSE Lecture(2, weekIdx - secondSemStartWeek(cfg))

\* the second-semester block numbered from the week after an orientation week
secondSemLectureStatus_afterOrientation(weekIdx, cfg, batchKey) ==
    IF isIndustrialTraining(cfg, batchKey)
    THEN IndustrialTraining(weekIdx - secondSemStartWeek(cfg) + 1
            - (IF isOrientationWeek(secondSemStartWeek(cfg), cfg, batchKey) THEN 1 ELSE 0))
    ELSE Lecture(2, weekIdx - secondSemStartWeek(cfg) + 1
            - (IF isOrientationWeek(secondSemStartWeek(cfg), cfg, batchKey) THEN 1 ELSE 0))

\* the status of the second-semester lecture block
secondSemLectureStatus(weekIdx, cfg, batchKey) ==
    IF isIndustrialTraining(cfg, batchKey)
    THEN IndustrialTraining(weekIdx - secondSemStartWeek(cfg) + 1)
    ELSE Lecture(2, weekIdx - secondSemStartWeek(cfg) + 1)

\* the last-exam-week branch of either semester
lastExamWeekStatus(cfg, batchKey) ==
    IF isFirstBatch(cfg, batchKey) THEN ExamEnd ELSE Exam

\* the graduation window without its last day
graduationOrVacation_strict(r, cfg) ==
    IF Val(cfg.graduationDate) < r.heap[r.date]
    THEN [status |-> Graduation, heap |-> r.heap]
    ELSE [status |-> Vacation, heap |-> r.heap]

\* the last conjunct of the graduation check, r = addDays(weekStartDate, 6)
graduationOrVacation(r, cfg) ==
    IF Val(cfg.graduationDate) <= r.heap[r.date]
    THEN [status |-> Graduation, heap |-> r.heap]
    ELSE [status |-> Vacation, heap |-> r.heap]

\* the graduation check without the test for the first batch
remainderStatus_anyBatch(heap, weekStartDate, cfg, batchKey) ==
    IF /\ cfg.graduationDate # null
       /\ heap[weekStartDate] <= Val(cfg.graduationDate)
    THEN graduationOrVacation(addDays(heap, weekStartDate, 6), cfg)
    ELSE [status |-> Vacation, heap |-> heap]

\* the graduation check and the default; addDays(weekStartDate, 6) is only
\* evaluated when the three conjuncts before it hold
remainderStatus(heap, weekStartDate, cfg, batchKey) ==
    IF /\ cfg.graduationDate # null
       /\ isFirstBatch(cfg, batchKey)
       /\ heap[weekStartDate] <= Val(cfg.graduationDate)
    THEN graduationOrVacation(addDays(heap, weekStartDate, 6), cfg)
    ELSE [status |-> Vacation, heap |-> heap]

determineWeekStatus(heap, weekIdx, weekStartDate, cfg, batchKey) ==
    LET f1 == cfg.firstSemester
        ret(s) == [status |-> s, heap |-> heap]
    IN  IF weekIdx <= f1.weeksCount
        THEN ret(Lecture(1, weekIdx))
        ELSE IF /\ weekIdx > f1.weeksCount
                /\ weekIdx <= f1.weeksCount + f1.deadWeeks
        THEN ret(DeadWeek)
        ELSE IF /\ weekIdx > f1.weeksCount + f1.deadWeeks
                /\ weekIdx <= f1.weeksCount + f1.deadWeeks + f1.examWeeks
        THEN ret(Exam)
        ELSE IF weekIdx = f1.weeksCount + f1.deadWeeks + f1.examWeeks
        THEN ret(lastExamWeekStatus(cfg, batchKey))
        ELSE IF /\ weekIdx > f1.weeksCount + f1.deadWeeks + f1.examWeeks
                /\ weekIdx <= firstSemEndWeek(cfg)
        THEN ret(Vacation)
        ELSE IF isOrientationWeek(weekIdx, cfg, batchKey)
        THEN ret(Orientation)
        ELSE IF /\ weekIdx >= secondSemStartWeek(cfg)
                /\ weekIdx <= secondSemLectureEndWeek(cfg)
        THEN ret(secondSemLectureStatus(weekIdx, cfg, batchKey))
        ELSE IF /\ weekIdx > secondSemLectureEndWeek(cfg)
                /\ weekIdx <= secondSemDeadWeekEnd(cfg)
        THEN ret(DeadWeek)
        ELSE IF /\ weekIdx > secondSemDeadWeekEnd(cfg)
                /\ weekIdx <= secondSemExamWeekEnd(cfg)
        THEN ret(Exam)
        ELSE IF weekIdx = secondSemExamWeekEnd(cfg)
        THEN ret(lastExamWeekStatus(cfg, batchKey))
        ELSE remainderStatus(heap, weekStartDate, cfg, batchKey)

(***************************************************************************)
(* generateCalendarWeeks                                                   *)
(***************************************************************************)

totalWeeks == 52

\* week.status[batchKey] = value
setStatus(status, batchKey, value) ==
    [b \in (DOMAIN status) \cup {batchKey} |->
        IF b = batchKey THEN value ELSE status[b]]

\* The loops below keep their local variables in one record, and each
\* intermediate result of an iteration is an operator argument.

\* the batch loop storing every status under the first batch's key
batchAssign_firstKey(st, r, cfg) ==
    [k      |-> st.k + 1,
     status |-> setStatus(st.status, cfg.batches[1], r.status),
     heap   |-> r.heap]

\* one iteration of the batch loop, r = determineWeekStatus(...)
batchAssign(st, r, cfg) ==
    [k      |-> st.k + 1,
     status |-> setStatus(st.status, cfg.batches[st.k], r.status),
     heap   |-> r.heap]

\* for (const batchKey of config.batches)
\*     week.status[batchKey] = determineWeekStatus(weekIdx, weekStartDate, config, batchKey)
RECURSIVE batchLoop(_, _, _, _)
batchLoop(st, weekIdx, weekStartDate, cfg) ==
    IF st.k > Len(cfg.batches)
    THEN st
    ELSE batchLoop(batchAssign(st,
                       determineWeekStatus(st.heap, weekIdx, weekStartDate, cfg,
                                           cfg.batches[st.k]),
                       cfg),
                   weekIdx, weekStartDate, cfg)

\* weeks.push(week); currentDate = addWeeks(currentDate, 1), with
\* e = addDays(weekStartDate, 4), b = the batch loop's result and
\* n = addWeeks(currentDate, 1); the week holds references to its dates
weekPush(st, e, label, b, n) ==
    [thrown      |-> FALSE,
     weekIdx     |-> st.weekIdx + 1,
     currentDate |-> n.date,
     heap        |-> n.heap,
     weeks       |-> Append(st.weeks,
                        [weekNumber |-> st.weekIdx,
                         startDate  |-> st.currentDate,
                         endDate    |-> e.date,
                         label      |-> label,
                         status     |-> b.status])]

weekStatuses(st, e, label, b) ==
    weekPush(st, e, label, b, addWeeks(b.heap, st.currentDate, 1))

\* the loop body after const weekEndDate = addDays(weekStartDate, 4)
weekBody(st, e, cfg) ==
    weekStatuses(st, e,
        format_d_MMM(e.heap[st.currentDate]) \o " to " \o format_d_MMM(e.heap[e.date]),
        batchLoop([k |-> 1, status |-> <<>>, heap |-> e.heap],
                  st.weekIdx, st.currentDate, cfg))

\* one pass of the week loop; date-fns format throws a RangeError on an
\* Invalid Date, which ends the call
weekPass(st, e, cfg) ==
    IF isValid(e.heap[st.currentDate]) /\ isValid(e.heap[e.date])
    THEN weekBody(st, e, cfg)
    ELSE [st EXCEPT !.thrown = TRUE]

\* the loop condition weekIdx < totalWeeks
weekLoopDone_strict(weekIdx) == ~(weekIdx < totalWeeks)

\* the loop ends when weekIdx <= totalWeeks fails
weekLoopDone(weekIdx) == ~(weekIdx <= totalWeeks)

\* for (let weekIdx = 1; weekIdx <= totalWeeks; weekIdx++) { ... }
RECURSIVE weekLoop(_, _)
weekLoop(st, cfg) ==
    IF st.thrown \/ weekLoopDone(st.weekIdx)
    THEN st
    ELSE weekLoop(weekPass(st, addDays(st.heap, st.currentDate, 4), cfg), cfg)

\* the returned weeks, each Date read through the heap as the call leaves
\* it, the argument as the call leaves it, and whether the call has thrown
\* instead of returning
callResult(out, cfg) ==
    [thrown |-> out.thrown,
     weeks  |-> [i \in 1..Len(out.weeks) |->
                    [out.weeks[i] EXCEPT
                        !.startDate = out.heap[out.weeks[i].startDate],
                        !.endDate   = out.heap[out.weeks[i].endDate]]],
     config |-> [cfg EXCEPT !.firstSemester.startDate = out.heap[1]]]

\* The call generateCalendarWeeks(cfg).  Reference 1 is the Date object
\* config.firstSemester.startDate (firstSemStartDate, the first currentDate).
generateCalendarWeeks(cfg) ==
    callResult(weekLoop([thrown |-> FALSE, weekIdx |-> 1, currentDate |-> 1,
                         heap |-> <<cfg.firstSemester.startDate>>,
                         weeks |-> <<>>], cfg),
               cfg)

(***************************************************************************)
(* Display mapping                                                         *)
(***************************************************************************)

\* the colour switch without its industrialTraining case
getColorForStatus_noTraining(status) ==
    CASE status.type = "lecture"            -> "#ffffff"
      [] status.type = "orientation"        -> "#ffff00"
      [] status.type = "deadWeek"           -> "#ff6600"
      [] status.type = "exam"               -> "#3366ff"
      [] status.type = "examEnd"            -> "#ff0000"
      [] status.type = "vacation"           -> "#ccffcc"
      [] status.type = "graduation"         -> "#ff00ff"
      [] OTHER                              -> "#ffffff"

getColorForStatus(status) ==
    CASE status.type = "lecture"            -> "#ffffff"
      [] status.type = "orientation"        -> "#ffff00"
      [] status.type = "deadWeek"           -> "#ff6600"
      [] status.type = "exam"               -> "#3366ff"
      [] status.type = "examEnd"            -> "#ff0000"
      [] status.type = "vacation"           -> "#ccffcc"
      [] status.type = "industrialTraining" -> "#b2a1c7"
      [] status.type = "graduation"         -> "#ff00ff"
      [] OTHER                              -> "#ffffff"

\* white text for exam only
getTextColorForStatus_examOnly(status) ==
    CASE status.type = "exam" -> "#ffffff"
      [] OTHER                -> "#000000"

getTextColorForStatus(status) ==
    CASE status.type = "exam"    -> "#ffffff"
      [] status.type = "examEnd" -> "#ffffff"
      [] OTHER                   -> "#000000"

getStatusDisplayText(status) ==
    CASE status.type = "lecture" ->
            "L" \o ToString(status.semesterNumber) \o ", S"
                \o ToString(status.semesterNumber) \o " - "
                \o ToString(status.weekNumber)
      [] status.type = "orientation"        -> "Orientation"
      [] status.type \in {"deadWeek", "exam", "examEnd", "vacation"} -> status.label
      [] status.type = "industrialTraining" -> "IT - " \o ToString(status.weekNumber)
      [] status.type = "graduation"         -> status.label
      [] OTHER                              -> ""

getLegendItems ==
    << [label |-> "Lecture",                  color |-> "#ffffff"],
       [label |-> "Orientation Program",      color |-> "#ffff00"],
       [label |-> "Dead Week",                color |-> "#ff6600"],
       [label |-> "End Semester Examination", color |-> "#3366ff"],
       [label |-> "Final Exam Ending Week",   color |-> "#ff0000"],
       [label |-> "Vacation",                 color |-> "#ccffcc"],
       [label |-> "Industrial Training",      color |-> "#b2a1c7"],
       [label |-> "Graduation",               color |-> "#ff00ff"] >>

(***************************************************************************)
(* exportToExcel                                                           *)
(*                                                                         *)
(* A worksheet is its rows from row 1 down and its merged ranges           *)
(* <<top, left, bottom, right>>.  A row is its cells from column 1 on, a   *)
(* cell is its value and the argb of its fill and of its font colour,      *)
(* each unset (null) or set.  Widths, heights, borders, alignment and font *)
(* sizes are left out.                                                     *)
(***************************************************************************)

emptyCell == [value |-> null, fill |-> null, font |-> null]
valueCell(v) == [value |-> Some(v), fill |-> null, font |-> null]

\* String.prototype.replace(pattern, '') with a one-character pattern:
\* the first occurrence is removed
RECURSIVE replace(_, _)
replace(s, pattern) ==
    IF Len(s) = 0 THEN s
    ELSE IF Head(s) = pattern THEN Tail(s)
    ELSE Head(s) \o replace(Tail(s), pattern)

\* worksheet.getRow(r), row.getCell(c): the row and the cell exist afterwards
withRow(rows, r) ==
    IF r <= Len(rows) THEN rows ELSE rows \o [i \in 1..(r - Len(rows)) |-> <<>>]
withCell(row, c) ==
    IF c <= Len(row) THEN row ELSE row \o [i \in 1..(c - Len(row)) |-> emptyCell]

\* worksheet.columns = [{ header, width }, ...]: ExcelJS writes each
\* column's header into row 1
setColumns(headers) ==
    [name   |-> "Academic Calendar",
     rows   |-> << [i \in 1..Len(headers) |-> valueCell(headers[i])] >>,
     merges |-> {}]

\* worksheet.addRow(values): a new row below the last row
addRow(ws, values) ==
    [ws EXCEPT !.rows = Append(@, [i \in 1..Len(values) |-> valueCell(values[i])])]

\* worksheet.getRow(r).getCell(c).value = v
setValue(ws, r, c, v) ==
    [ws EXCEPT !.rows[r] = [withCell(@, c) EXCEPT ![c].value = Some(v)]]

\* worksheet.mergeCells(top, left, bottom, right): the cell at (top, left)
\* is the master, every other cell of the range takes its value and style
mergeRange(rows, top, left, bottom, right) ==
    [r \in 1..Len(rows) |->
        IF r < top \/ r > bottom THEN rows[r]
        ELSE [c \in 1..Len(withCell(rows[r], right)) |->
                 IF c < left \/ c > right
                 THEN withCell(rows[r], right)[c]
                 ELSE withCell(rows[top], left)[left]]]
mergeCells(ws, top, left, bottom, right) ==
    [ws EXCEPT !.rows = mergeRange(withRow(@, bottom), top, left, bottom, right),
               !.merges = @ \cup {<<top, left, bottom, right>>}]

\* the number of the row addRow has just returned
lastRow(ws) == Len(ws.rows)

titleText(cfg) ==
    "ACADEMIC CALENDAR FOR THE YEAR " \o cfg.academicYear \o " - "
        \o cfg.faculty \o ", " \o cfg.university

\* titleRow.getCell(2).value = ..., with ws the sheet after
\* titleRow = worksheet.addRow(['', ''])
setTitle(ws, cfg) == setValue(ws, lastRow(ws), 2, titleText(cfg))

\* the columns, the title row and the merge for the title
titleRows(cfg) ==
    mergeCells(
        setTitle(addRow(setColumns(<<"", "Year", "Start Date", "End Date",
                                     "", "Week", "", "">> \o cfg.batches),
                        <<"", "">>),
                 cfg),
        1, 2, 1, 8 + Len(cfg.batches))

\* headerRow.getCell(9 + index).value = batch for every batch, with ws the
\* sheet after headerRow = worksheet.addRow([...])
setBatchHeaders(ws, cfg) ==
    [ws EXCEPT !.rows[lastRow(ws)] =
        [c \in 1..(8 + Len(cfg.batches)) |->
            IF c <= 8 THEN withCell(@, 8)[c] ELSE valueCell(cfg.batches[c - 8])]]

\* the empty row, the header row, its merge and the empty row after it
headerRows(ws, cfg) ==
    addRow(
        mergeCells(
            setBatchHeaders(
                addRow(addRow(ws, <<>>),
                       <<"", "Year / Dates", "", "", "", "Week", "", "">>),
                cfg),
            4, 2, 4, 4),
        <<>>)

\* a status cell with the fill and the font colour exchanged
statusCell_exchanged(status) ==
    [value |-> Some(getStatusDisplayText(status)),
     fill  |-> Some(replace(getTextColorForStatus(status), "#")),
     font  |-> Some(replace(getColorForStatus(status), "#"))]

\* cell.value = statusText; cell.fill = { fgColor: { argb } };
\* cell.font = { color: { argb } }
statusCell(status) ==
    [value |-> Some(getStatusDisplayText(status)),
     fill  |-> Some(replace(getColorForStatus(status), "#")),
     font  |-> Some(replace(getTextColorForStatus(status), "#"))]

\* the row of one week: the eight values given to addRow, then the cell
\* 9 + batchIndex of every batch
weekRow(week, cfg) ==
    [c \in 1..(8 + Len(cfg.batches)) |->
        IF c <= 8
        THEN valueCell(<< "", format_yyyy(week.startDate),
                          format_dd_MMM(week.startDate),
                          format_dd_MMM(week.endDate),
                          "", ToString(week.weekNumber), "", "" >>[c])
        ELSE statusCell(week.status[cfg.batches[c - 8]])]

\* one pass of calendarWeeks.forEach((week, index) => ...)
weekRowAdded(st, weeksArg, cfg) ==
    [index |-> st.index + 1,
     ws    |-> [st.ws EXCEPT !.rows = Append(@, weekRow(weeksArg[st.index], cfg))]]

RECURSIVE weekRows(_, _, _)
weekRows(st, weeksArg, cfg) ==
    IF st.index > Len(weeksArg)
    THEN st.ws
    ELSE weekRows(weekRowAdded(st, weeksArg, cfg), weeksArg, cfg)

\* the legend section
legendRows(ws) ==
    addRow(addRow(addRow(addRow(addRow(addRow(addRow(addRow(ws,
        <<>>),
        <<>>),
        <<"", "Legend:">>),
        <<"", "DW", ":", "Dead Week">>),
        <<"", "EX", ":", "End Semester Examination">>),
        <<"", "Vaca", ":", "Vacation">>),
        <<"", "IT", ":", "Industrial Training">>),
        <<"", "EX-END", ":", "Final Exam Ending Week">>)

\* the workbook exportToExcel has built when it reaches writeBuffer
buildWorkbook(weeksArg, cfg) ==
    legendRows(weekRows([index |-> 1, ws |-> headerRows(titleRows(cfg), cfg)],
                        weeksArg, cfg))

\* a failed writeBuffer that is swallowed, the file saved all the same
afterWriteBuffer_saveAnyway(call, outcome) ==
    [saveAs |-> << [name |-> "Academic_Calendar_" \o call.config.academicYear \o ".xlsx",
                    data |-> call.workbook] >>,
     thrown |-> null]

\* const buffer = await workbook.xlsx.writeBuffer(); saveAs(blob, name):
\* the calls of saveAs and what exportToExcel throws, outcome being the
\* settled state of the promise writeBuffer returned
afterWriteBuffer(call, outcome) ==
    IF outcome.state = "rejected"
    THEN [saveAs |-> <<>>, thrown |-> Some(outcome.reason)]
    ELSE [saveAs |-> << [name |-> "Academic_Calendar_" \o call.config.academicYear \o ".xlsx",
                         data |-> call.workbook] >>,
          thrown |-> null]

\* a call exportToExcel(calendarWeeks, config), suspended at the await
exportToExcel(weeksArg, cfg) ==
    [calendarWeeks |-> weeksArg,
     config        |-> cfg,
     workbook      |-> buildWorkbook(weeksArg, cfg),
     writeBuffer   |-> [state |-> "pending"]]

(***************************************************************************)
(* Configurations                                                          *)
(***************************************************************************)

\* new Date().getFullYear()
currentYear == 2025

\* getDefaultCalendarConfig() when new Date().getFullYear() is year
getDefaultCalendarConfigIn(year) ==
    LET academicYearStart == year
        academicYearEnd   == year + 1
    IN  [academicYear |-> ToString(academicYearStart) \o "-" \o ToString(academicYearEnd),
         faculty      |-> "Faculty of Applied Science",
         university   |-> "University of Vavuniya",
         batches      |-> << "FAS/" \o ToString(academicYearStart - 4),
                             "FAS/" \o ToString(academicYearStart - 3),
                             "FAS/" \o ToString(academicYearStart - 2),
                             "FAS/" \o ToString(academicYearStart - 1),
                             "FAS/" \o ToString(academicYearStart) >>,
         firstSemester  |-> [startDate |-> NewDate(academicYearStart, 7, 15),
                             weeksCount |-> 15, includeOrientation |-> TRUE,
                             deadWeeks |-> 1, examWeeks |-> 3, vacationWeeks |-> 3],
         secondSemester |-> [startDate |-> NewDate(academicYearStart + 1, 0, 15),
                             weeksCount |-> 15, includeOrientation |-> FALSE,
                             deadWeeks |-> 1, examWeeks |-> 3, vacationWeeks |-> 3],
         includeIndustrialTraining |-> TRUE,
         graduationDate |-> Some(NewDate(academicYearStart + 1, 5, 15))]

getDefaultCalendarConfig == getDefaultCalendarConfigIn(currentYear)

\* a SemesterConfig literal
SemesterConfig(startDate, weeksCount, orientation, deadWeeks, examWeeks, vacation) ==
    [startDate |-> startDate, weeksCount |-> weeksCount,
     includeOrientation |-> orientation, deadWeeks |-> deadWeeks,
     examWeeks |-> examWeeks, vacationWeeks |-> vacation]

\* the templates' next year taken as the current year
nextYear_same(year) == year

\* const nextYear = currentYear + 1
nextYear(year) == year + 1

\* getPresetTemplates(year); name and description are left out
getPresetTemplates(year) ==
    << [id |-> "vavuniya-applied-science",
        config |->
          [academicYear |-> ToString(year) \o "-" \o ToString(nextYear(year)),
           faculty      |-> "Faculty of Applied Science",
           university   |-> "University of Vavuniya",
           batches      |-> << "FAS/" \o ToString(year - 4), "FAS/" \o ToString(year - 3),
                               "FAS/" \o ToString(year - 2), "FAS/" \o ToString(year - 1),
                               "FAS/" \o ToString(year) >>,
           firstSemester  |-> SemesterConfig(NewDate(year, 7, 15), 15, TRUE, 1, 3, 3),
           secondSemester |-> SemesterConfig(NewDate(nextYear(year), 0, 15), 15, FALSE, 1, 3, 3),
           includeIndustrialTraining |-> TRUE,
           graduationDate |-> Some(NewDate(nextYear(year), 5, 15))]],
       [id |-> "uk-standard",
        config |->
          [academicYear |-> ToString(year) \o "-" \o ToString(nextYear(year)),
           faculty      |-> "Faculty of Science",
           university   |-> "UK University",
           batches      |-> << "Year " \o ToString(4), "Year " \o ToString(3),
                               "Year " \o ToString(2), "Year " \o ToString(1) >>,
           firstSemester  |-> SemesterConfig(NewDate(year, 8, 21), 12, TRUE, 1, 2, 3),
           secondSemester |-> SemesterConfig(NewDate(nextYear(year), 0, 10), 12, FALSE, 1, 3, 12),
           includeIndustrialTraining |-> FALSE,
           graduationDate |-> Some(NewDate(nextYear(year), 6, 15))]],
       [id |-> "us-semester",
        config |->
          [academicYear |-> ToString(year) \o "-" \o ToString(nextYear(year)),
           faculty      |-> "College of Arts & Sciences",
           university   |-> "US University",
           batches      |-> << "Senior", "Junior", "Sophomore", "Freshman" >>,
           firstSemester  |-> SemesterConfig(NewDate(year, 7, 25), 15, TRUE, 1, 1, 4),
           secondSemester |-> SemesterConfig(NewDate(nextYear(year), 0, 15), 15, FALSE, 1, 1, 14),
           includeIndustrialTraining |-> FALSE,
           graduationDate |-> Some(NewDate(nextYear(year), 4, 15))]],
       [id |-> "australia-standard",
        config |->
          [academicYear |-> ToString(year) \o "-" \o ToString(nextYear(year)),
           faculty      |-> "Faculty of Science",
           university   |-> "Australian University",
           batches      |-> << "Year " \o ToString(3), "Year " \o ToString(2),
                               "Year " \o ToString(1) >>,
           firstSemester  |-> SemesterConfig(NewDate(year, 1, 20), 13, TRUE, 1, 2, 3),
           secondSemester |-> SemesterConfig(NewDate(year, 6, 20), 13, FALSE, 1, 2, 12),
           includeIndustrialTraining |-> TRUE,
           graduationDate |-> Some(NewDate(year, 11, 10))]] >>

\* The configs handed to the generator.  The form starts from the default
\* config and lets every field be edited; the fields the generator reads
\* range over the sets below, the others keep their default.

\* longest batch list tried
MaxBatches == 3

\* the batches field: the first n default batches, or a list that names its
\* first batch again at the end
BatchLists ==
    { SubSeq(getDefaultCalendarConfig.batches, 1, n) : n \in 1..MaxBatches }
        \cup { << getDefaultCalendarConfig.batches[1],
                  getDefaultCalendarConfig.batches[2],
                  getDefaultCalendarConfig.batches[1] >> }

\* firstSemester.startDate: Friday 15 Aug 2025 (the default) or Monday 18 Aug 2025
StartDates == { NewDate(currentYear, 7, 15), NewDate(currentYear, 7, 18) }

\* graduationDate: unset, Monday 15 Jun 2026 (the default) or Sunday 21 Jun 2026
GraduationDates ==
    { null, Some(NewDate(currentYear + 1, 5, 15)), Some(NewDate(currentYear + 1, 5, 21)) }

Counts(w, d, e, v) ==
    [weeksCount |-> w, deadWeeks |-> d, examWeeks |-> e, vacationWeeks |-> v]

\* week counts inside the ranges the form's inputs announce
FormCounts1 ==
    { Counts(w, d, e, v) : w \in {1, 15}, d \in {0, 1}, e \in {1, 3}, v \in {0, 3} }
FormCounts2 ==
    { Counts(w, 1, e, 3) : w \in {1, 15}, e \in {1, 3} }

\* week counts outside those ranges: phases that overrun the year, empty
\* phases and negative counts
OtherCounts ==
    { <<Counts(60, 1, 3, 3),  Counts(15, 1, 3, 3)>>,
      <<Counts(15, 1, 3, 3),  Counts(30, 4, 6, 8)>>,
      <<Counts(30, 4, 6, 8),  Counts(15, 1, 3, 3)>>,
      <<Counts(0, 0, 0, 0),   Counts(0, 0, 0, 0)>>,
      <<Counts(15, 1, 3, 3),  Counts(0, 1, 3, 3)>>,
      <<Counts(1, 0, 1, 0),   Counts(1, 0, 1, 0)>>,
      <<Counts(15, 1, 3, 3),  Counts(15, 0, 2, 0)>>,
      <<Counts(15, 0, 0, 0),  Counts(15, 0, 0, 0)>>,
      <<Counts(15, 1, 3, -1), Counts(15, 1, 3, 3)>>,
      <<Counts(15, -1, 3, 3), Counts(15, 1, 3, 3)>>,
      <<Counts(15, 1, -1, 3), Counts(15, 1, -1, 3)>>,
      <<Counts(15, 1, 3, 3),  Counts(-1, 1, 3, 3)>>,
      <<Counts(-2, 0, 1, 0),  Counts(2, -1, 1, 0)>> }

CountPairs == (FormCounts1 \X FormCounts2) \cup OtherCounts

withCounts(sem, c) ==
    [sem EXCEPT !.weeksCount = c.weeksCount, !.deadWeeks = c.deadWeeks,
                !.examWeeks = c.examWeeks, !.vacationWeeks = c.vacationWeeks]

FormConfigs ==
    { [getDefaultCalendarConfig EXCEPT
          !.batches = b,
          !.firstSemester = [withCounts(@, cp[1]) EXCEPT !.startDate = sd],
          !.secondSemester = [withCounts(@, cp[2]) EXCEPT !.includeOrientation = o],
          !.includeIndustrialTraining = it,
          !.graduationDate = gd] :
        b \in BatchLists, sd \in StartDates, cp \in CountPairs,
        o \in BOOLEAN, it \in BOOLEAN, gd \in GraduationDates }

(***************************************************************************)
(* The Home page                                                           *)
(***************************************************************************)

\* what Home renders: the form, or the view of the generated calendar
formShown == ~isGenerating /\ ~(calendarWeeks # null /\ config # null)
viewShown == ~isGenerating /\ calendarWeeks # null /\ config # null

\* the state of Home, of a freshly mounted form and of the page around them
InitialState ==
    /\ calendarWeeks = null
    /\ config = null
    /\ isGenerating = FALSE
    /\ lastAlert = null
    /\ visibleWeeks = 52
    /\ aiSuggestion = null
    /\ isLoading = FALSE
    /\ aiRequests = <<>>
    /\ exports = <<>>
    /\ saveAsCalls = <<>>
    /\ caught = <<>>

\* configs whose start date is so late that a week of the year ends after
\* the last valid Date: in week 3, or in week 1
OutOfRangeConfigs ==
    { [getDefaultCalendarConfig EXCEPT !.firstSemester.startDate = maxDateDay - d] :
        d \in {15, 2} }

Init ==
    /\ formConfig \in FormConfigs \cup OutOfRangeConfigs
    /\ InitialState

\* CalendarForm.handleSubmit with the config mixed with the suggestion
onSubmitArgument_suggested(form) ==
    IF form.aiSuggestion # null THEN getDefaultCalendarConfig ELSE form.config

\* CalendarForm.handleSubmit: onSubmit(config)
onSubmitArgument(form) == form.config

\* the requests of a form that is unmounted: their responses find no form
abandoned(requests) ==
    [k \in 1..Len(requests) |->
        [requests[k] EXCEPT !.abandoned = @ \/ requests[k].outcome = null]]

\* isGenerating reset at the end of the try block only
isGeneratingAfter_noFinally(thrown) == thrown

\* setIsGenerating(true) ... finally { setIsGenerating(false) }: the value
\* of isGenerating when handleSubmit returns
isGeneratingAfter(thrown) == FALSE

\* Home.handleSubmit(formConfig), called by CalendarForm.handleSubmit with
\* the form's config object; the object is shared by the form, the call
\* and the Home state
\* setCalendarWeeks(weeks); setConfig(formConfig), r = the generator call;
\* the view replaces the form
setGenerated(r) ==
    /\ calendarWeeks' = Some(r.weeks)
    /\ config' = Some(r.config)
    /\ formConfig' = r.config
    /\ visibleWeeks' = 52
    /\ aiSuggestion' = null
    /\ isLoading' = FALSE
    /\ aiRequests' = abandoned(aiRequests)
    /\ UNCHANGED lastAlert

\* the catch block: the error is logged and an alert shown
generationFailed ==
    /\ lastAlert' = Some("Failed to generate calendar. Please check your inputs and try again.")
    /\ UNCHANGED <<calendarWeeks, config, formConfig, visibleWeeks,
                   aiSuggestion, isLoading, aiRequests>>

\* the try, catch and finally of handleSubmit, r = the generator call
submitted(r) ==
    /\ IF r.thrown THEN generationFailed ELSE setGenerated(r)
    /\ isGenerating' = isGeneratingAfter(r.thrown)

HandleSubmit ==
    /\ formShown
    /\ submitted(generateCalendarWeeks(
            onSubmitArgument([config |-> formConfig, aiSuggestion |-> aiSuggestion])))
    /\ UNCHANGED <<exports, saveAsCalls, caught>>

\* Home.handleNewCalendar; the form is mounted again and starts from
\* getDefaultCalendarConfig()
HandleNewCalendar ==
    /\ viewShown
    /\ calendarWeeks' = null
    /\ config' = null
    /\ formConfig' = getDefaultCalendarConfig
    /\ visibleWeeks' = 52
    /\ aiSuggestion' = null
    /\ isLoading' = FALSE
    /\ UNCHANGED <<isGenerating, lastAlert, aiRequests, exports, saveAsCalls, caught>>

Next == HandleSubmit \/ HandleNewCalendar

Spec == Init /\ [][Next]_vars

(***************************************************************************)
(* The form: templates and the fields the generator does not read          *)
(***************************************************************************)

\* the years new Date().getFullYear() is taken from: currentYear and the
\* MaxYearOffset years before and after it
MaxYearOffset == 2
Years == (currentYear - MaxYearOffset)..(currentYear + MaxYearOffset)

\* the form is mounted with useState(getDefaultCalendarConfig())
FormInit ==
    /\ formConfig \in { getDefaultCalendarConfigIn(year) : year \in Years }
    /\ InitialState

\* setConfig(template.config)
applyTemplate(template) == template.config

\* a click on a template of the list
ApplyTemplate ==
    /\ formShown
    /\ \E year \in Years :
         \E i \in 1..Len(getPresetTemplates(year)) :
            formConfig' = applyTemplate(getPresetTemplates(year)[i])
    /\ UNCHANGED <<calendarWeeks, config, isGenerating, lastAlert, visibleWeeks,
                   aiSuggestion, isLoading, aiRequests, exports, saveAsCalls, caught>>

\* setConfig(prev => ({ ...prev, [key]: value }))
updateConfig(prev, key, value) == [prev EXCEPT ![key] = value]
updateFirstSemesterConfig(prev, key, value) ==
    [prev EXCEPT !.firstSemester = [@ EXCEPT ![key] = value]]
updateSecondSemesterConfig(prev, key, value) ==
    [prev EXCEPT !.secondSemester = [@ EXCEPT ![key] = value]]

\* what is typed or picked in the inputs of academicYear, faculty and
\* university, of the second semester's start date and vacation weeks
TextEdits ==
    { <<"academicYear", "2026/27">>, <<"faculty", "Faculty of Science">>,
      <<"university", "UK University">> }
SecondSemesterEdits ==
    { <<"startDate", NewDate(currentYear + 1, 1, 2)>>, <<"vacationWeeks", 0>> }

UpdateConfig ==
    /\ formShown
    /\ \E edit \in TextEdits : formConfig' = updateConfig(formConfig, edit[1], edit[2])
    /\ UNCHANGED <<calendarWeeks, config, isGenerating, lastAlert, visibleWeeks,
                   aiSuggestion, isLoading, aiRequests, exports, saveAsCalls, caught>>

UpdateFirstSemesterConfig ==
    /\ formShown
    /\ \E checked \in BOOLEAN :
         formConfig' = updateFirstSemesterConfig(formConfig, "includeOrientation", checked)
    /\ UNCHANGED <<calendarWeeks, config, isGenerating, lastAlert, visibleWeeks,
                   aiSuggestion, isLoading, aiRequests, exports, saveAsCalls, caught>>

UpdateSecondSemesterConfig ==
    /\ formShown
    /\ \E edit \in SecondSemesterEdits :
         formConfig' = updateSecondSemesterConfig(formConfig, edit[1], edit[2])
    /\ UNCHANGED <<calendarWeeks, config, isGenerating, lastAlert, visibleWeeks,
                   aiSuggestion, isLoading, aiRequests, exports, saveAsCalls, caught>>

FormNext ==
    \/ ApplyTemplate
    \/ UpdateConfig
    \/ UpdateFirstSemesterConfig
    \/ UpdateSecondSemesterConfig
    \/ HandleSubmit
    \/ HandleNewCalendar

FormSpec == FormInit /\ [][FormNext]_vars

(***************************************************************************)
(* The calendar view and its export                                        *)
(***************************************************************************)

\* most calls of exportToExcel in one behaviour
MaxExports == 2

\* const filteredWeeks = calendarWeeks.slice(0, visibleWeeks): the rows of
\* the table on screen
filteredWeeks(weeksArg, visible) ==
    SubSeq(weeksArg, 1, IF visible < Len(weeksArg) THEN visible ELSE Len(weeksArg))

\* the export handed the weeks on screen
handleExportWeeks_filtered(weeksArg, visible) == filteredWeeks(weeksArg, visible)

\* handleExport: the first argument of exportToExcel(calendarWeeks, config)
handleExportWeeks(weeksArg, visible) == weeksArg

\* the errors writeBuffer rejects with
EncodingErrors == { "RangeError: Invalid string length", "Error: out of memory" }

\* the academicYear field of the form
AcademicYears == { getDefaultCalendarConfig.academicYear, "2026/27" }

\* the configs of the behaviours that export: the default config with the
\* academic year, the batches and the week counts edited
ExportConfigs ==
    { [getDefaultCalendarConfig EXCEPT
          !.academicYear = ay,
          !.batches = b,
          !.firstSemester = withCounts(@, cp[1]),
          !.secondSemester = [withCounts(@, cp[2]) EXCEPT !.includeOrientation = TRUE]] :
        ay \in AcademicYears, b \in BatchLists,
        cp \in { <<Counts(15, 1, 3, 3), Counts(15, 1, 3, 3)>>,
                 <<Counts(1, 0, 1, 0), Counts(1, 0, 1, 0)>> } }

ExportInit ==
    /\ formConfig \in ExportConfigs
    /\ InitialState

\* CalendarView.handleExport up to the await of exportToExcel, which
\* itself runs up to its await of writeBuffer
HandleExport ==
    /\ viewShown
    /\ Len(exports) < MaxExports
    /\ exports' = Append(exports,
                      exportToExcel(handleExportWeeks(Val(calendarWeeks), visibleWeeks),
                                    Val(config)))
    /\ UNCHANGED <<formConfig, calendarWeeks, config, isGenerating, lastAlert,
                   visibleWeeks, aiSuggestion, isLoading, aiRequests,
                   saveAsCalls, caught>>

\* the catch block of handleExport: the error is logged and an alert shown
handleExportCatch(k, thrown) ==
    IF thrown = null THEN <<>> ELSE << [call |-> k, error |-> Val(thrown)] >>
handleExportAlert(thrown) ==
    IF thrown = null THEN lastAlert
    ELSE Some("Failed to export calendar. Please try again.")

\* the promise of call k settles with outcome; exportToExcel and then
\* handleExport run on from their awaits within the same job
writeBufferSettled(k, outcome, r) ==
    /\ exports' = [exports EXCEPT ![k].writeBuffer = outcome]
    /\ saveAsCalls' = saveAsCalls \o [i \in 1..Len(r.saveAs) |->
                                          [call |-> k, name |-> r.saveAs[i].name,
                                           data |-> r.saveAs[i].data]]
    /\ caught' = caught \o handleExportCatch(k, r.thrown)
    /\ lastAlert' = handleExportAlert(r.thrown)
    /\ UNCHANGED <<formConfig, calendarWeeks, config, isGenerating, visibleWeeks,
                   aiSuggestion, isLoading, aiRequests>>

WriteBufferFulfilled ==
    \E k \in 1..Len(exports) :
        /\ exports[k].writeBuffer.state = "pending"
        /\ writeBufferSettled(k, [state |-> "fulfilled"],
                afterWriteBuffer(exports[k], [state |-> "fulfilled"]))

WriteBufferRejected ==
    \E k \in 1..Len(exports), e \in EncodingErrors :
        /\ exports[k].writeBuffer.state = "pending"
        /\ writeBufferSettled(k, [state |-> "rejected", reason |-> e],
                afterWriteBuffer(exports[k], [state |-> "rejected", reason |-> e]))

ExportNext ==
    \/ HandleSubmit
    \/ HandleNewCalendar
    \/ HandleExport
    \/ WriteBufferFulfilled
    \/ WriteBufferRejected

ExportSpec == ExportInit /\ [][ExportNext]_vars

\* the configs whose calendar is looked at through the week filter
ViewConfigs ==
    { [getDefaultCalendarConfig EXCEPT !.batches = SubSeq(@, 1, n)] : n \in {1, 2} }

ViewInit ==
    /\ formConfig \in ViewConfigs
    /\ InitialState

\* the values of the options of the 'Show weeks' select
VisibleWeeksOptions == {"13", "26", "39", "52"}

\* parseInt of a string of decimal digits
RECURSIVE parseDigits(_, _)
parseDigits(s, acc) ==
    IF Len(s) = 0 THEN acc
    ELSE parseDigits(Tail(s), 10 * acc + (CHOOSE d \in 0..9 : ToString(d) = Head(s)))
parseInt(s) == parseDigits(s, 0)

\* onChange={(e) => setVisibleWeeks(parseInt(e.target.value))}
SetVisibleWeeks ==
    /\ viewShown
    /\ \E value \in VisibleWeeksOptions : visibleWeeks' = parseInt(value)
    /\ UNCHANGED <<formConfig, calendarWeeks, config, isGenerating, lastAlert,
                   aiSuggestion, isLoading, aiRequests, exports, saveAsCalls, caught>>

ViewNext ==
    \/ HandleSubmit
    \/ HandleNewCalendar
    \/ SetVisibleWeeks
    \/ HandleExport
    \/ WriteBufferFulfilled
    \/ WriteBufferRejected

ViewSpec == ViewInit /\ [][ViewNext]_vars

(***************************************************************************)
(* The form's AI suggestions                                               *)
(***************************************************************************)

\* most requests to /api/ai in one behaviour
MaxRequests == 2

MonthNames == <<"January", "February", "March", "April", "May", "June", "July",
                "August", "September", "October", "November", "December">>

\* date-fns format(date, 'dd MMMM yyyy')
format_dd_MMMM_yyyy(date) ==
    LET c == civil(date)
    IN  (IF c.day < 10 THEN "0" ELSE "") \o ToString(c.day) \o " "
            \o MonthNames[c.month + 1] \o " " \o ToString(c.year)

\* Array.prototype.join
RECURSIVE join(_, _)
join(strings, separator) ==
    IF Len(strings) = 0 THEN ""
    ELSE IF Len(strings) = 1 THEN strings[1]
    ELSE strings[1] \o separator \o join(Tail(strings), separator)

\* the prompt of getAiSuggestion: the values put into the template, in the
\* order of the template (its fixed text is left out)
prompt(cfg) ==
    << cfg.academicYear, cfg.faculty, cfg.university,
       format_dd_MMMM_yyyy(cfg.firstSemester.startDate),
       ToString(cfg.firstSemester.weeksCount),
       ToString(cfg.secondSemester.weeksCount),
       IF cfg.includeIndustrialTraining THEN "Yes" ELSE "No",
       join(cfg.batches, ", ") >>

\* what openai.chat.completions.create gives the route: a completion with
\* a text, with an empty text or with no content, or an error thrown
OpenAiResults ==
    { [ok |-> TRUE,  content |-> Some("Use two dead weeks before the examinations.")],
      [ok |-> TRUE,  content |-> Some("")],
      [ok |-> TRUE,  content |-> null],
      [ok |-> FALSE, content |-> null] }

\* the route handler POST of /api/ai: the JSON body it answers with
POST(result) ==
    IF result.ok
    THEN [success |-> TRUE,
          data    |-> IF result.content = null \/ Val(result.content) = ""
                      THEN "Sorry, I couldn't generate a response."
                      ELSE Val(result.content),
          status  |-> 200]
    ELSE [success |-> FALSE, data |-> "", status |-> 500]

\* how the fetch of getAiSuggestion can end: with the route's answer, with
\* a rejected fetch, or with a body response.json() cannot parse
AiOutcomes ==
    { [kind |-> "answered", body |-> POST(result)] : result \in OpenAiResults }
        \cup { [kind |-> k, body |-> POST([ok |-> FALSE, content |-> null])] :
                 k \in {"fetchRejected", "bodyNotJson"} }

\* the message set by the try block or by the catch block of getAiSuggestion
suggestionOf(outcome) ==
    IF outcome.kind = "answered"
    THEN IF outcome.body.success
         THEN outcome.body.data
         ELSE "Sorry, I was unable to generate suggestions at this time."
    ELSE "Error: Unable to connect to AI service."

\* the configs of the form the suggestions are asked for
AiConfigs == ViewConfigs \cup { CHOOSE c \in OutOfRangeConfigs : TRUE }

AiInit ==
    /\ formConfig \in AiConfigs
    /\ InitialState

\* getAiSuggestion up to its await of fetch; the button is disabled while
\* isLoading
GetAiSuggestion ==
    /\ formShown
    /\ ~isLoading
    /\ Len(aiRequests) < MaxRequests
    /\ isLoading' = TRUE
    /\ aiRequests' = Append(aiRequests,
                            [prompt |-> prompt(formConfig), outcome |-> null,
                             abandoned |-> FALSE])
    /\ UNCHANGED <<formConfig, calendarWeeks, config, isGenerating, lastAlert,
                   visibleWeeks, aiSuggestion, exports, saveAsCalls, caught>>

\* the fetch of request k ends with outcome and getAiSuggestion runs on from
\* its await to its end; the state setters of a form that has been unmounted
\* change nothing
AiResponse ==
    \E k \in 1..Len(aiRequests), outcome \in AiOutcomes :
        /\ aiRequests[k].outcome = null
        /\ aiRequests' = [aiRequests EXCEPT ![k].outcome = Some(outcome)]
        /\ IF aiRequests[k].abandoned
           THEN UNCHANGED <<aiSuggestion, isLoading>>
           ELSE /\ aiSuggestion' = Some(suggestionOf(outcome))
                /\ isLoading' = FALSE
        /\ UNCHANGED <<formConfig, calendarWeeks, config, isGenerating, lastAlert,
                       visibleWeeks, exports, saveAsCalls, caught>>

\* the button of the suggestion panel: setAiSuggestion(null)
DismissSuggestion ==
    /\ formShown
    /\ aiSuggestion # null
    /\ aiSuggestion' = null
    /\ UNCHANGED <<formConfig, calendarWeeks, config, isGenerating, lastAlert,
                   visibleWeeks, isLoading, aiRequests, exports, saveAsCalls, caught>>

AiNext ==
    \/ GetAiSuggestion
    \/ AiResponse
    \/ DismissSuggestion
    \/ HandleSubmit
    \/ HandleNewCalendar

AiSpec == AiInit /\ [][AiNext]_vars

(***************************************************************************)
(* Properties                                                              *)
(***************************************************************************)

\* The generated calendar and the config it was generated from, as the
\* Home page holds them; the phase boundaries as the specification names them.
generated == calendarWeeks # null /\ config # null
weeks == Val(calendarWeeks)
cfgOf == Val(config)
statusAt(i, b) == weeks[i].status[b]
batchNames == DOMAIN weeks[1].status
firstBatch == cfgOf.batches[1]
lastBatch == cfgOf.batches[Len(cfgOf.batches)]
W1 == cfgOf.firstSemester.weeksCount
D1 == cfgOf.firstSemester.deadWeeks
E1 == cfgOf.firstSemester.examWeeks
V1 == cfgOf.firstSemester.vacationWeeks
W2 == cfgOf.secondSemester.weeksCount
D2 == cfgOf.secondSemester.deadWeeks
E2 == cfgOf.secondSemester.examWeeks
S2 == W1 + D1 + E1 + V1 + 1
Range(seq) == { seq[i] : i \in 1..Len(seq) }
UniqueBatches ==
    \A i, j \in 1..Len(cfgOf.batches) :
        cfgOf.batches[i] = cfgOf.batches[j] => i = j
\* the counts of the data model: non-negative integers
NonNegativeCounts ==
    /\ W1 >= 0 /\ D1 >= 0 /\ E1 >= 0 /\ V1 >= 0
    /\ W2 >= 0 /\ D2 >= 0 /\ E2 >= 0
typeAt(i, b) == statusAt(i, b).type

\* C1: generateCalendarWeeks returns exactly 52 week records, in order, and
\* the i-th record has weekNumber i, whatever the configured week counts.
C1_FiftyTwoWeeksNumbered ==
    generated =>
        /\ Len(weeks) = 52
        /\ \A i \in 1..Len(weeks) : weeks[i].weekNumber = i

\* a calendar whose configured phases overrun the year
C1_Witness ==
    /\ generated
    /\ S2 + W2 + D2 + E2 - 1 > 52
    /\ Len(weeks) = 52 /\ weeks[52].weekNumber = 52

\* C2: week 1 starts at firstSemester.startDate, week i starts 7*(i-1) days
\* after it, and every week ends 4 days after it starts.
C2_WeekDates ==
    generated =>
        \A i \in 1..Len(weeks) :
            /\ weeks[i].startDate = cfgOf.firstSemester.startDate + 7 * (i - 1)
            /\ weeks[i].endDate = weeks[i].startDate + 4

\* a calendar whose weeks run into the next civil year
C2_Witness ==
    /\ generated
    /\ Len(weeks) = 52
    /\ civil(weeks[1].startDate).year = currentYear
    /\ civil(weeks[52].endDate).year = currentYear + 1

\* C3: the last of the E1 >= 1 first-semester exam weeks is examEnd for the
\* batch at index 0 and exam for every other batch; the earlier exam weeks
\* of that phase are exam for all batches.
C3_FirstSemesterExamEnd ==
    (generated /\ NonNegativeCounts /\ E1 >= 1) =>
        \A i \in 1..Len(weeks), b \in batchNames :
            /\ (i = W1 + D1 + E1 /\ b = firstBatch) => statusAt(i, b) = ExamEnd
            /\ (i = W1 + D1 + E1 /\ b # firstBatch) => statusAt(i, b) = Exam
            /\ (i > W1 + D1 /\ i < W1 + D1 + E1) => statusAt(i, b) = Exam

IsWeekStatus(s) ==
    /\ "type" \in DOMAIN s
    /\ \/ s.type = "lecture" /\ s = Lecture(s.semesterNumber, s.weekNumber)
       \/ s = Orientation
       \/ s = DeadWeek
       \/ s = Exam
       \/ s = ExamEnd
       \/ s = Vacation
       \/ s.type = "industrialTraining" /\ s = IndustrialTraining(s.weekNumber)
       \/ s.type = "graduation" /\ DOMAIN s = {"type", "label"}

\* C4: with a non-empty list of unique batches, every week's status map has
\* exactly the batches as its keys and every entry is one of the eight
\* WeekStatus variants.
C4_StatusTotal ==
    (generated /\ Len(cfgOf.batches) >= 1 /\ UniqueBatches) =>
        \A i \in 1..Len(weeks) :
            /\ DOMAIN weeks[i].status = Range(cfgOf.batches)
            /\ \A b \in Range(cfgOf.batches) : IsWeekStatus(weeks[i].status[b])

\* a calendar for several unique batches
C4_Witness ==
    /\ generated
    /\ UniqueBatches
    /\ Len(cfgOf.batches) >= 3
    /\ Cardinality(DOMAIN weeks[52].status) = Len(cfgOf.batches)

\* C5: with unique batches, a batch whose status is examEnd,
\* industrialTraining or graduation is the batch at index 0; a batch whose
\* status is orientation is the last batch, and only at week S2.
C5_PositionalStatuses ==
    (generated /\ UniqueBatches) =>
        \A i \in 1..Len(weeks) : \A b \in DOMAIN weeks[i].status :
            /\ typeAt(i, b) \in {"examEnd", "industrialTraining", "graduation"}
                  => b = firstBatch
            /\ typeAt(i, b) = "orientation" => (b = lastBatch /\ i = S2)

\* a calendar of several unique batches in which industrial training,
\* graduation and orientation all occur
C5_Witness ==
    /\ generated
    /\ UniqueBatches
    /\ Len(cfgOf.batches) >= 2
    /\ \E i \in 1..Len(weeks) : typeAt(i, firstBatch) = "industrialTraining"
    /\ \E i \in 1..Len(weeks) : typeAt(i, firstBatch) = "graduation"
    /\ \E i \in 1..Len(weeks) : typeAt(i, lastBatch) = "orientation"

\* C6: at week S2, with secondSemester.includeOrientation the last batch is
\* orientation and no other batch is; without it no batch is orientation in
\* any week.  (Counts as in the data model: non-negative.)
C6_Orientation ==
    generated =>
        /\ (NonNegativeCounts /\ cfgOf.secondSemester.includeOrientation /\ S2 <= 52) =>
              \A b \in DOMAIN weeks[S2].status :
                  (statusAt(S2, b) = Orientation) <=> (b = lastBatch)
        /\ ~cfgOf.secondSemester.includeOrientation =>
              \A i \in 1..Len(weeks) : \A b \in DOMAIN weeks[i].status :
                  typeAt(i, b) # "orientation"

\* orientation of the last of several batches at week S2, while another
\* batch has its first second-semester lecture
C6_Witness ==
    /\ generated
    /\ NonNegativeCounts
    /\ cfgOf.secondSemester.includeOrientation
    /\ S2 <= 52
    /\ Len(cfgOf.batches) >= 3
    /\ statusAt(S2, lastBatch) = Orientation
    /\ statusAt(S2, cfgOf.batches[2]) = Lecture(2, 1)

\* C7: in weeks S2..S2+W2-1 (within 1..52) a batch not overridden by
\* orientation is lecture, semester 2, week weekIdx-S2+1, except that with
\* includeIndustrialTraining the batch at index 0 is industrialTraining with
\* that week number; without includeIndustrialTraining no batch ever is
\* industrialTraining.  (Counts as in the data model: non-negative.)
C7_SecondSemesterBlock ==
    generated =>
        /\ NonNegativeCounts =>
              \A i \in 1..Len(weeks) : \A b \in DOMAIN weeks[i].status :
                  (/\ i >= S2 /\ i <= S2 + W2 - 1
                   /\ ~(i = S2 /\ b = lastBatch /\ cfgOf.secondSemester.includeOrientation))
                  => statusAt(i, b) =
                        IF cfgOf.includeIndustrialTraining /\ b = firstBatch
                        THEN IndustrialTraining(i - S2 + 1)
                        ELSE Lecture(2, i - S2 + 1)
        /\ ~cfgOf.includeIndustrialTraining =>
              \A i \in 1..Len(weeks) : \A b \in DOMAIN weeks[i].status :
                  typeAt(i, b) # "industrialTraining"

\* the last week of a second-semester block that lies inside the year:
\* training week W2 for the batch at index 0, lecture week W2 for another
C7_Witness ==
    /\ generated
    /\ NonNegativeCounts
    /\ cfgOf.includeIndustrialTraining
    /\ W2 >= 2 /\ S2 + W2 - 1 <= 52
    /\ Len(cfgOf.batches) >= 2 /\ UniqueBatches
    /\ statusAt(S2 + W2 - 1, firstBatch) = IndustrialTraining(W2)
    /\ statusAt(S2 + W2 - 1, lastBatch) = Lecture(2, W2)

\* C8: generateCalendarWeeks leaves its argument unchanged (start date and
\* batches included), and a second call with that config returns a
\* structurally equal output.
C8_PureGenerator ==
    [][(calendarWeeks = null /\ calendarWeeks' # null) =>
          /\ formConfig' = formConfig
          /\ config' = Some(formConfig)
          /\ generateCalendarWeeks(Val(config')).weeks = Val(calendarWeeks')]_vars

\* after a call, week 1 starts on the start date the config still carries
C8_Witness ==
    /\ generated
    /\ formConfig = cfgOf
    /\ weeks[1].startDate = formConfig.firstSemester.startDate
    /\ weeks[2].startDate # formConfig.firstSemester.startDate

\* the display table of the specification: label text, background, text colour
DisplayTable(s) ==
    CASE s.type = "lecture" ->
            << "L" \o ToString(s.semesterNumber) \o ", S" \o ToString(s.semesterNumber)
                   \o " - " \o ToString(s.weekNumber), "#ffffff", "#000000" >>
      [] s.type = "orientation"        -> << "Orientation", "#ffff00", "#000000" >>
      [] s.type = "deadWeek"           -> << "DW", "#ff6600", "#000000" >>
      [] s.type = "exam"               -> << "EX", "#3366ff", "#ffffff" >>
      [] s.type = "examEnd"            -> << "EX-END", "#ff0000", "#ffffff" >>
      [] s.type = "vacation"           -> << "Vaca.", "#ccffcc", "#000000" >>
      [] s.type = "industrialTraining" ->
            << "IT - " \o ToString(s.weekNumber), "#b2a1c7", "#000000" >>
      [] s.type = "graduation"         -> << "Graduation", "#ff00ff", "#000000" >>

\* one status of each variant
VariantSamples ==
    { Lecture(1, 1), Lecture(2, 15), Orientation, DeadWeek, Exam, ExamEnd,
      Vacation, IndustrialTraining(1), Graduation }

\* the statuses of the generated calendar
GeneratedStatuses ==
    { weeks[i].status[b] : i \in 1..Len(weeks), b \in batchNames }

\* C9: for every WeekStatus variant, and every status of the generated
\* calendar, getStatusDisplayText, getColorForStatus and
\* getTextColorForStatus give the label, background and text colour of the
\* specification's table.
C9_DisplayMapping ==
    \A s \in VariantSamples \cup (IF generated THEN GeneratedStatuses ELSE {}) :
        << getStatusDisplayText(s), getColorForStatus(s), getTextColorForStatus(s) >>
            = DisplayTable(s)

\* a calendar that shows seven of the eight variants at once
C9_Witness ==
    /\ generated
    /\ { s.type : s \in GeneratedStatuses } =
          { "lecture", "orientation", "deadWeek", "exam", "vacation",
            "industrialTraining", "graduation" }

\* C10: every generated week starts on a Monday and ends on the Friday of
\* the same week.
C10_MondayToFriday ==
    generated =>
        \A i \in 1..Len(weeks) :
            /\ getDay(weeks[i].startDate) = 1
            /\ getDay(weeks[i].endDate) = 5
            /\ weeks[i].endDate = weeks[i].startDate + 4

\* the counts of the data model: non-negative, at least one lecture week
\* per semester
DataModelCounts == NonNegativeCounts /\ W1 >= 1 /\ W2 >= 1

\* the last week of the configured phases, and the graduation overlay of
\* week i for batch b
PhasesEnd == S2 + W2 + D2 + E2 - 1
GraduationOverlay(i, b) ==
    /\ cfgOf.graduationDate # null
    /\ b = firstBatch
    /\ weeks[i].startDate <= Val(cfgOf.graduationDate)
    /\ Val(cfgOf.graduationDate) <= weeks[i].startDate + 6
BoundaryCounts == Counts(1, 0, 1, 0)
CountsOf(sem) == Counts(sem.weeksCount, sem.deadWeeks, sem.examWeeks, sem.vacationWeeks)

\* C11: with one lecture week and one exam week per semester and no dead
\* or vacation weeks, the generator returns 52 weeks and weeks 5..52 are
\* vacation for every batch unless the graduation overlay applies; in
\* general, for counts of the data model, every week after the last
\* configured phase is vacation for every batch unless the graduation
\* overlay applies.
C11_VacationAfterPhases ==
    generated =>
        /\ (CountsOf(cfgOf.firstSemester) = BoundaryCounts
                /\ CountsOf(cfgOf.secondSemester) = BoundaryCounts) =>
              /\ Len(weeks) = 52
              /\ \A i \in 5..52 : \A b \in DOMAIN weeks[i].status :
                    ~GraduationOverlay(i, b) => statusAt(i, b) = Vacation
        /\ DataModelCounts =>
              \A i \in 1..Len(weeks) : \A b \in DOMAIN weeks[i].status :
                  (i > PhasesEnd /\ ~GraduationOverlay(i, b)) =>
                      statusAt(i, b) = Vacation

\* the boundary config without a graduation date: four phase weeks, then
\* 48 vacation weeks for every batch
C11_Witness ==
    /\ generated
    /\ CountsOf(cfgOf.firstSemester) = BoundaryCounts
    /\ CountsOf(cfgOf.secondSemester) = BoundaryCounts
    /\ cfgOf.graduationDate = null
    /\ Len(cfgOf.batches) >= 2
    /\ PhasesEnd = 4
    /\ typeAt(4, firstBatch) = "exam"
    /\ \A i \in 5..52 : \A b \in batchNames : statusAt(i, b) = Vacation

\* counts the data model excludes, and the config with every count clamped
\* to its smallest allowed value
InvalidCounts ==
    \/ W1 < 1 \/ D1 < 0 \/ E1 < 0 \/ V1 < 0
    \/ W2 < 1 \/ D2 < 0 \/ E2 < 0 \/ cfgOf.secondSemester.vacationWeeks < 0
Max(a, b) == IF a >= b THEN a ELSE b
ClampedCounts(sem) ==
    [sem EXCEPT !.weeksCount = Max(@, 1), !.deadWeeks = Max(@, 0),
                !.examWeeks = Max(@, 0), !.vacationWeeks = Max(@, 0)]
Clamped(cfg) ==
    [cfg EXCEPT !.firstSemester = ClampedCounts(@),
                !.secondSemester = ClampedCounts(@)]

\* C14: a config with weeksCount < 1 or a negative dead, exam or vacation
\* count never enters generation as it is: the call is rejected, or the
\* calendar is the one of the clamped counts.
C14_CountsGuarded ==
    (generated /\ InvalidCounts) =>
        weeks = generateCalendarWeeks(Clamped(cfgOf)).weeks

\* C15: for non-negative counts, weeks 1..W1 are first-semester lecture
\* weeks numbered by their index, weeks W1+1..W1+D1 are dead weeks and weeks
\* W1+D1+E1+1..W1+D1+E1+V1 are vacation, for every batch alike.
C15_FirstSemesterPhases ==
    (generated /\ NonNegativeCounts) =>
        \A i \in 1..Len(weeks) : \A b \in DOMAIN weeks[i].status :
            /\ i <= W1 => statusAt(i, b) = Lecture(1, i)
            /\ (W1 + 1 <= i /\ i <= W1 + D1) => statusAt(i, b) = DeadWeek
            /\ (W1 + D1 + E1 + 1 <= i /\ i <= W1 + D1 + E1 + V1) =>
                  statusAt(i, b) = Vacation

\* the three phases inside the year, each at least one week long
C15_Witness ==
    /\ generated
    /\ NonNegativeCounts
    /\ W1 >= 2 /\ D1 >= 1 /\ E1 >= 1 /\ V1 >= 2 /\ W1 + D1 + E1 + V1 <= 52
    /\ Len(cfgOf.batches) >= 2
    /\ statusAt(W1, lastBatch) = Lecture(1, W1)
    /\ statusAt(W1 + D1, firstBatch) = DeadWeek
    /\ statusAt(W1 + D1 + E1 + V1, lastBatch) = Vacation

\* C16: the last second-semester exam week, index S2+W2+D2+E2-1 with
\* E2 >= 1 and index <= 52, is examEnd for the batch at index 0 and exam
\* for every other batch.
C16_SecondSemesterExamEnd ==
    (generated /\ NonNegativeCounts /\ W2 >= 1 /\ E2 >= 1 /\ PhasesEnd <= 52) =>
        \A b \in DOMAIN weeks[PhasesEnd].status :
            statusAt(PhasesEnd, b) = IF b = firstBatch THEN ExamEnd ELSE Exam

\* the orientation overlay of week i for batch b
OrientationOverlay(i, b) ==
    i = S2 /\ b = lastBatch /\ cfgOf.secondSemester.includeOrientation

C18_GraduationOrVacation ==
    (generated /\ DataModelCounts) =>
        \A i \in 1..Len(weeks) : \A b \in DOMAIN weeks[i].status :
            i > PhasesEnd =>
                statusAt(i, b) = IF GraduationOverlay(i, b)
                                 THEN [type |-> "graduation", label |-> "Graduation"]
                                 ELSE Vacation

\* a graduation date on the last day of the window: graduation for the
\* batch at index 0, vacation for the last batch and in the week after
C18_Witness ==
    /\ generated
    /\ DataModelCounts
    /\ cfgOf.graduationDate # null
    /\ Len(cfgOf.batches) >= 2 /\ UniqueBatches
    /\ \E i \in 1..51 :
          /\ i > PhasesEnd
          /\ Val(cfgOf.graduationDate) = weeks[i].startDate + 6
          /\ typeAt(i, firstBatch) = "graduation"
          /\ statusAt(i, lastBatch) = Vacation
          /\ statusAt(i + 1, firstBatch) = Vacation

\* the phase of week i for batch b, by the counts and in the order of the
\* checks: 1 lecture, 2 dead, 3 exam, 4 vacation, 5 second-semester block,
\* 6 dead, 7 exam, 8 remainder
PhaseOfWeek(i, b) ==
    IF i <= W1 THEN 1
    ELSE IF i <= W1 + D1 THEN 2
    ELSE IF i <= W1 + D1 + E1 THEN 3
    ELSE IF i <= W1 + D1 + E1 + V1 THEN 4
    ELSE IF OrientationOverlay(i, b) \/ i <= S2 + W2 - 1 THEN 5
    ELSE IF i <= S2 + W2 + D2 - 1 THEN 6
    ELSE IF i <= PhasesEnd THEN 7
    ELSE 8
InPhase(s, p) ==
    CASE p = 1 -> s.type = "lecture" /\ s.semesterNumber = 1
      [] p = 2 -> s.type = "deadWeek"
      [] p = 3 -> s.type \in {"exam", "examEnd"}
      [] p = 4 -> s.type = "vacation"
      [] p = 5 -> \/ s.type \in {"orientation", "industrialTraining"}
                  \/ s.type = "lecture" /\ s.semesterNumber = 2
      [] p = 6 -> s.type = "deadWeek"
      [] p = 7 -> s.type \in {"exam", "examEnd"}
      [] p = 8 -> s.type \in {"vacation", "graduation"}

\* C19: for non-negative counts and any fixed batch, every week belongs to
\* exactly one phase, the one the counts give it with the first matching
\* check winning, and along the week indices 1..52 the phase keeps the
\* order lecture, dead, exam, vacation, second-semester block, dead, exam,
\* remainder without returning to an earlier phase.
C19_PhaseOrder ==
    (generated /\ NonNegativeCounts) =>
        \A b \in batchNames : \A i \in 1..Len(weeks) :
            /\ InPhase(statusAt(i, b), PhaseOfWeek(i, b))
            /\ \A p \in 1..8 : InPhase(statusAt(i, b), p) =>
                  p \in {PhaseOfWeek(i, b), PhaseOfWeek(i, b) + 4, PhaseOfWeek(i, b) - 4}
            /\ i < Len(weeks) => PhaseOfWeek(i, b) <= PhaseOfWeek(i + 1, b)

\* a calendar whose last batch passes through all eight phases, the
\* orientation week included
C19_Witness ==
    /\ generated
    /\ NonNegativeCounts
    /\ cfgOf.secondSemester.includeOrientation
    /\ { PhaseOfWeek(i, lastBatch) : i \in 1..Len(weeks) } = 1..8
    /\ typeAt(S2, lastBatch) = "orientation"
    /\ typeAt(52, lastBatch) = "vacation"

\* the calls of saveAs and the caught errors that belong to call k
SaveAsCallsOf(k) == { i \in 1..Len(saveAsCalls) : saveAsCalls[i].call = k }
CaughtOf(k) == { i \in 1..Len(caught) : caught[i].call = k }
ExportFileName(cfg) == "Academic_Calendar_" \o cfg.academicYear \o ".xlsx"

\* C12: a call of exportToExcel hands its workbook to saveAs only after
\* writeBuffer has completed successfully, then exactly once and under the
\* name Academic_Calendar_{academicYear}.xlsx; when writeBuffer fails there
\* is no call of saveAs and the caller catches the very error writeBuffer
\* failed with.
C12_AllOrNothing ==
    \A k \in 1..Len(exports) :
        /\ \A i \in SaveAsCallsOf(k) :
              /\ saveAsCalls[i].name = ExportFileName(exports[k].config)
              /\ saveAsCalls[i].data = exports[k].workbook
        /\ exports[k].writeBuffer.state = "pending" =>
              SaveAsCallsOf(k) = {} /\ CaughtOf(k) = {}
        /\ exports[k].writeBuffer.state = "fulfilled" =>
              Cardinality(SaveAsCallsOf(k)) = 1 /\ CaughtOf(k) = {}
        /\ exports[k].writeBuffer.state = "rejected" =>
              /\ SaveAsCallsOf(k) = {}
              /\ Cardinality(CaughtOf(k)) = 1
              /\ \A i \in CaughtOf(k) : caught[i].error = exports[k].writeBuffer.reason

\* two exports: the first failed and was caught, the second saved its file
C12_Witness ==
    /\ Len(exports) = 2
    /\ exports[1].writeBuffer.state = "rejected"
    /\ exports[2].writeBuffer.state = "fulfilled"
    /\ caught = << [call |-> 1, error |-> exports[1].writeBuffer.reason] >>
    /\ Len(saveAsCalls) = 1
    /\ saveAsCalls[1].call = 2
    /\ saveAsCalls[1].name = "Academic_Calendar_2026/27.xlsx"

\* the hex digits of a colour written #rrggbb
HexDigits(colour) == IF Head(colour) = "#" THEN Tail(colour) ELSE colour

\* the k-th data row: five rows lie above the first one (column headers,
\* title, empty, header, empty), eight below the last one (the legend)
DataRow(x, k) == x.workbook.rows[5 + k]

\* C13: the exported sheet has exactly one data row per entry of
\* calendarWeeks, in the same order, and in each data row one cell per
\* batch, batch j of config.batches in column 9 + j, whose text is
\* getStatusDisplayText(status), whose fill colour is
\* getColorForStatus(status) and whose font colour is
\* getTextColorForStatus(status), for that week's status of that batch.
C13_DataRows ==
    \A n \in 1..Len(exports) :
        /\ Len(exports[n].workbook.rows) =
              5 + Len(exports[n].calendarWeeks) + 8
        /\ \A k \in 1..Len(exports[n].calendarWeeks) :
              /\ Len(DataRow(exports[n], k)) = 8 + Len(exports[n].config.batches)
              /\ DataRow(exports[n], k)[6].value =
                    Some(ToString(exports[n].calendarWeeks[k].weekNumber))
              /\ \A j \in 0..(Len(exports[n].config.batches) - 1) :
                    DataRow(exports[n], k)[9 + j] =
                        [value |-> Some(getStatusDisplayText(
                                      exports[n].calendarWeeks[k].status[
                                          exports[n].config.batches[j + 1]])),
                         fill  |-> Some(HexDigits(getColorForStatus(
                                      exports[n].calendarWeeks[k].status[
                                          exports[n].config.batches[j + 1]]))),
                         font  |-> Some(HexDigits(getTextColorForStatus(
                                      exports[n].calendarWeeks[k].status[
                                          exports[n].config.batches[j + 1]])))]

\* an export of the default counts for several batches: an exam week in
\* white on blue for the first batch, a lecture week in black on white for
\* the last batch, 52 data rows
C13_Witness ==
    /\ Len(exports) >= 1
    /\ Len(exports[1].config.batches) >= 3
    /\ Len(exports[1].calendarWeeks) = 52
    /\ DataRow(exports[1], 17)[6].value = Some("17")
    /\ DataRow(exports[1], 17)[9] =
          [value |-> Some("EX"), fill |-> Some("3366ff"), font |-> Some("ffffff")]
    /\ DataRow(exports[1], 52)[6].value = Some("52")
    /\ DataRow(exports[1], 24)[8 + Len(exports[1].config.batches)] =
          [value |-> Some("L2, S2 - 2"), fill |-> Some("ffffff"), font |-> Some("000000")]

\* the rows of an exported sheet that hold the title text, and its header
\* rows: 'Year / Dates' in column 2 and the batches from column 9 on
TitleRowsOf(x) ==
    { r \in 1..Len(x.workbook.rows) :
        /\ Len(x.workbook.rows[r]) >= 2
        /\ x.workbook.rows[r][2].value =
              Some("ACADEMIC CALENDAR FOR THE YEAR " \o x.config.academicYear
                       \o " - " \o x.config.faculty \o ", " \o x.config.university) }
HeaderRowsOf(x) ==
    { r \in 1..Len(x.workbook.rows) :
        /\ Len(x.workbook.rows[r]) = 8 + Len(x.config.batches)
        /\ x.workbook.rows[r][2].value = Some("Year / Dates")
        /\ \A j \in 1..Len(x.config.batches) :
              x.workbook.rows[r][8 + j].value = Some(x.config.batches[j]) }

\* C20: in the exported sheet the row that holds the title text is the row
\* merged over columns 2 .. 8 + number of batches, and the header row that
\* names the batches is the row in which columns 2..4 are merged.
C20_TitleAndHeaderMerges ==
    \A n \in 1..Len(exports) :
        /\ TitleRowsOf(exports[n]) # {}
        /\ \A r \in TitleRowsOf(exports[n]) :
              <<r, 2, r, 8 + Len(exports[n].config.batches)>> \in exports[n].workbook.merges
        /\ HeaderRowsOf(exports[n]) # {}
        /\ \A r \in HeaderRowsOf(exports[n]) :
              <<r, 2, r, 4>> \in exports[n].workbook.merges

\* the legend label that stands for a WeekStatus variant
LegendLabelOf(type) ==
    CASE type = "lecture"            -> "Lecture"
      [] type = "orientation"        -> "Orientation Program"
      [] type = "deadWeek"           -> "Dead Week"
      [] type = "exam"               -> "End Semester Examination"
      [] type = "examEnd"            -> "Final Exam Ending Week"
      [] type = "vacation"           -> "Vacation"
      [] type = "industrialTraining" -> "Industrial Training"
      [] type = "graduation"         -> "Graduation"
LegendEntriesOf(type) ==
    { i \in 1..Len(getLegendItems) : getLegendItems[i].label = LegendLabelOf(type) }
\* the types of the statuses an export has written into batch cells
ExportedTypes(x) ==
    { x.calendarWeeks[k].status[x.config.batches[j]].type :
        k \in 1..Len(x.calendarWeeks), j \in 1..Len(x.config.batches) }

\* C21: getLegendItems has eight entries, exactly one per WeekStatus
\* variant, the colour of each entry is getColorForStatus of its variant,
\* and every exported status cell is filled with the legend colour of its
\* variant.
C21_LegendAgrees ==
    /\ Len(getLegendItems) = 8
    /\ \A s \in VariantSamples :
          /\ Cardinality(LegendEntriesOf(s.type)) = 1
          /\ \A i \in LegendEntriesOf(s.type) :
                getLegendItems[i].color = getColorForStatus(s)
    /\ \A n \in 1..Len(exports) :
          \A k \in 1..Len(exports[n].calendarWeeks) :
              \A j \in 1..Len(exports[n].config.batches) :
                  \A i \in LegendEntriesOf(
                              exports[n].calendarWeeks[k].status[
                                  exports[n].config.batches[j]].type) :
                      DataRow(exports[n], k)[8 + j].fill =
                          Some(HexDigits(getLegendItems[i].color))

\* an export whose cells show seven variants, a training week among them
C21_Witness ==
    /\ Len(exports) >= 1
    /\ ExportedTypes(exports[1]) =
          { "lecture", "orientation", "deadWeek", "exam", "vacation",
            "industrialTraining", "graduation" }
    /\ DataRow(exports[1], 23)[9].value = Some("IT - 1")
    /\ DataRow(exports[1], 23)[9].fill = Some("b2a1c7")

\* the batch that gets training weeks in the second-semester block
TrainingBatch(b) == b = firstBatch /\ cfgOf.includeIndustrialTraining

\* C25: with secondSemester.includeOrientation set and W2 >= 2 (non-negative
\* counts, week S2+1 inside the year) the last batch has its orientation in
\* week S2 and goes on in week S2+1 with week number 2: a semester-2 lecture
\* week, or a training week when the last batch is also the batch at index
\* 0 and includeIndustrialTraining is set (a single batch); it never has a
\* second-semester week numbered 1 and, when it has lecture weeks and the
\* block ends inside the year, it has W2-1 of them.
C25_NumberingAfterOrientation ==
    (generated /\ NonNegativeCounts /\ cfgOf.secondSemester.includeOrientation
        /\ W2 >= 2 /\ S2 + 1 <= 52) =>
        /\ statusAt(S2, lastBatch) = Orientation
        /\ statusAt(S2 + 1, lastBatch) =
              IF TrainingBatch(lastBatch) THEN IndustrialTraining(2) ELSE Lecture(2, 2)
        /\ \A i \in 1..Len(weeks) :
              statusAt(i, lastBatch) \notin {Lecture(2, 1), IndustrialTraining(1)}
        /\ (S2 + W2 - 1 <= 52 /\ ~TrainingBatch(lastBatch)) =>
              Cardinality({ i \in 1..Len(weeks) :
                              /\ typeAt(i, lastBatch) = "lecture"
                              /\ statusAt(i, lastBatch).semesterNumber = 2 }) = W2 - 1

\* a single batch with training: orientation in week S2, training week 2
\* in week S2+1
C25_Witness ==
    /\ generated
    /\ NonNegativeCounts
    /\ cfgOf.secondSemester.includeOrientation
    /\ W2 >= 2 /\ S2 + W2 - 1 <= 52
    /\ Len(cfgOf.batches) = 1
    /\ cfgOf.includeIndustrialTraining
    /\ statusAt(S2, lastBatch) = Orientation
    /\ statusAt(S2 + 1, lastBatch) = IndustrialTraining(2)
    /\ statusAt(S2 + W2 - 1, lastBatch) = IndustrialTraining(W2)

\* the weeks and batches with the status graduation, and the weeks whose
\* seven days hold the graduation date
GraduationCells ==
    { <<i, b>> \in (1..Len(weeks)) \X batchNames : typeAt(i, b) = "graduation" }
GraduationWeeks ==
    { i \in 1..Len(weeks) :
        /\ cfgOf.graduationDate # null
        /\ weeks[i].startDate <= Val(cfgOf.graduationDate)
        /\ Val(cfgOf.graduationDate) <= weeks[i].startDate + 6 }

\* C26: in a generated calendar at most one week carries the status
\* graduation, only for the batch at index 0 and only at a week index above
\* S2+W2+D2+E2-1; a graduation date inside a week of an earlier phase gives
\* no graduation status at all.
C26_AtMostOneGraduation ==
    generated =>
        /\ Cardinality({ c[1] : c \in GraduationCells }) <= 1
        /\ \A c \in GraduationCells :
              c[2] = firstBatch /\ c[1] > PhasesEnd /\ c[1] \in GraduationWeeks
        /\ (\E i \in GraduationWeeks : i <= PhasesEnd) => GraduationCells = {}

\* a graduation date inside the second-semester lecture weeks: no
\* graduation anywhere in the calendar
C26_Witness ==
    /\ generated
    /\ NonNegativeCounts
    /\ \E i \in GraduationWeeks :
          i <= PhasesEnd /\ typeAt(i, firstBatch) \in {"lecture", "industrialTraining"}
    /\ GraduationCells = {}

\* C28: helpers. The state of Home between two handlers.
HomeConsistent ==
    /\ (calendarWeeks = null) <=> (config = null)
    /\ generated => weeks = generateCalendarWeeks(cfgOf).weeks
    /\ ~isGenerating
GenerationThrows == formShown /\ generateCalendarWeeks(formConfig).thrown

\* C28: after any sequence of handleSubmit and handleNewCalendar calls,
\* calendarWeeks is null exactly when config is null, a non-null
\* calendarWeeks is the generator's result for the stored config, and
\* isGenerating is false whenever a handler has returned; a handleSubmit
\* whose generation throws leaves calendarWeeks and config as they were.
C28_HomeStateConsistent ==
    /\ []HomeConsistent
    /\ [][GenerationThrows =>
            /\ calendarWeeks' = calendarWeeks
            /\ config' = config
            /\ ~isGenerating']_vars
C28_Witness ==
    /\ lastAlert = Some("Failed to generate calendar. Please check your inputs and try again.")
    /\ formConfig \in OutOfRangeConfigs
    /\ calendarWeeks = null /\ config = null
    /\ ~isGenerating

\* C27: helpers. The fields of a CalendarConfig and of a SemesterConfig.
ConfigFields ==
    {"academicYear", "faculty", "university", "batches", "firstSemester",
     "secondSemester", "includeIndustrialTraining", "graduationDate"}
SemesterFields ==
    {"startDate", "weeksCount", "includeOrientation", "deadWeeks", "examWeeks",
     "vacationWeeks"}
FieldForFieldEqual(c1, c2) ==
    /\ DOMAIN c1 = ConfigFields /\ DOMAIN c2 = ConfigFields
    /\ \A f \in {"academicYear", "faculty", "university", "batches",
                 "includeIndustrialTraining", "graduationDate"} : c1[f] = c2[f]
    /\ \A s \in {"firstSemester", "secondSemester"} :
         /\ DOMAIN c1[s] = SemesterFields /\ DOMAIN c2[s] = SemesterFields
         /\ \A f \in SemesterFields : c1[s][f] = c2[s][f]

\* C27: the default configuration of a year and the config of the first
\* preset ('vavuniya-applied-science') of the same year are equal field for
\* field, whichever of the two the form holds.
C27_DefaultIsFirstPreset ==
    \A year \in Years :
        (formConfig = getDefaultCalendarConfigIn(year)
            \/ formConfig = getPresetTemplates(year)[1].config)
        => /\ getPresetTemplates(year)[1].id = "vavuniya-applied-science"
           /\ FieldForFieldEqual(getDefaultCalendarConfigIn(year),
                                 getPresetTemplates(year)[1].config)
C27_Witness ==
    /\ generated
    /\ cfgOf = getPresetTemplates(currentYear - 1)[1].config
    /\ cfgOf = getDefaultCalendarConfigIn(currentYear - 1)

\* C23: helpers.
IsPresetOf(cfg, i) == \E year \in Years : cfg = getPresetTemplates(year)[i].config
GraduationWeeksOfFirstBatch == { i \in 1..52 : typeAt(i, firstBatch) = "graduation" }

\* C23: for each of the four presets, of any year, the generated calendar
\* gives batch index 0 the status graduation in exactly one week.
C23_PresetsGraduate ==
    \A i \in 1..4 :
        (generated /\ IsPresetOf(cfgOf, i)) => Cardinality(GraduationWeeksOfFirstBatch) = 1

\* C24: helpers. The config with the six fields the generator does not read
\* set to fixed values.
Normalized(cfg) ==
    [cfg EXCEPT !.academicYear = "", !.faculty = "", !.university = "",
                !.firstSemester.includeOrientation = FALSE,
                !.secondSemester.startDate = 0,
                !.secondSemester.vacationWeeks = 0]

\* C24: two configs that differ only in firstSemester.includeOrientation,
\* secondSemester.startDate, secondSemester.vacationWeeks, academicYear,
\* faculty and university generate the same 52 weeks, dates and status maps:
\* the weeks generated are those of the config with these fields fixed.
C24_UnreadFieldsIgnored ==
    generated => weeks = generateCalendarWeeks(Normalized(cfgOf)).weeks
C24_Witness ==
    /\ generated
    /\ cfgOf.academicYear = "2026/27"
    /\ cfgOf.faculty = "Faculty of Science"
    /\ cfgOf.university = "UK University"
    /\ cfgOf.firstSemester.includeOrientation
    /\ cfgOf.secondSemester.startDate = NewDate(currentYear + 1, 1, 2)
    /\ cfgOf.secondSemester.vacationWeeks = 0
    /\ Len(weeks) = 52

\* C29: helpers. A call of exportToExcel made with all the weeks of the
\* calendar and with its config, whose sheet has one data row per week.
FullExport(x, allWeeks, cfg) ==
    /\ x.calendarWeeks = allWeeks
    /\ x.config = cfg
    /\ Len(x.calendarWeeks) = 52
    /\ Len(x.workbook.rows) = 5 + 52 + 8
    /\ \A k \in 1..52 : DataRow(x, k)[6].value = Some(ToString(k))
ExportStarted == viewShown /\ Len(exports') = Len(exports) + 1
FilterChanged == viewShown /\ viewShown' /\ visibleWeeks' # visibleWeeks

\* C29: handleExport hands exportToExcel all the weeks of calendarWeeks (52
\* data rows) and the config, whatever visibleWeeks is (13, 26, 39 or 52);
\* a change of visibleWeeks changes neither calendarWeeks nor config, and
\* only the rows on screen follow it.
C29_ExportIsFull ==
    /\ [](viewShown => /\ visibleWeeks \in {13, 26, 39, 52}
                       /\ Len(filteredWeeks(weeks, visibleWeeks)) = visibleWeeks)
    /\ [][ExportStarted =>
            FullExport(exports'[Len(exports')], Val(calendarWeeks), Val(config))]_vars
    /\ [][FilterChanged => UNCHANGED <<calendarWeeks, config, exports>>]_vars
C29_Witness ==
    /\ viewShown
    /\ visibleWeeks = 13
    /\ Len(filteredWeeks(weeks, visibleWeeks)) = 13
    /\ Len(exports) = 2
    /\ FullExport(exports[2], weeks, cfgOf)
    /\ exports[2].writeBuffer.state = "fulfilled"

\* C22: helpers. A step of the suggestion feature, and a submit that
\* replaces the form by the view.
SuggestionStep ==
    /\ formShown <=> formShown'
    /\ aiSuggestion' # aiSuggestion \/ isLoading' # isLoading \/ aiRequests' # aiRequests
SubmitStep == formShown /\ viewShown'

\* C22: the AI suggestion is advisory. Whatever the outcome of a request
\* (a text, success false, a network or parse error), asking for it,
\* receiving it and dismissing it leave the form's config and the Home
\* state unchanged, and a submit hands over the form's config and stores
\* the weeks generated from it, whatever the suggestion says.
C22_SuggestionIsAdvisory ==
    /\ [][SuggestionStep => UNCHANGED <<formConfig, calendarWeeks, config>>]_vars
    /\ [][SubmitStep =>
            /\ config' = Some(formConfig)
            /\ calendarWeeks' = Some(generateCalendarWeeks(formConfig).weeks)]_vars
C22_Witness ==
    /\ generated
    /\ cfgOf \in ViewConfigs
    /\ weeks = generateCalendarWeeks(cfgOf).weeks
    /\ Len(aiRequests) = 2
    /\ aiRequests[1].outcome # null
    /\ Val(aiRequests[1].outcome).kind = "answered"
    /\ Val(aiRequests[1].outcome).body.success
    /\ ~aiRequests[1].abandoned
    /\ aiRequests[2].outcome # null
    /\ Val(aiRequests[2].outcome).kind = "fetchRejected"
    /\ ~aiRequests[2].abandoned

\* C30: helpers. The requests in flight.
InFlight == { k \in 1..Len(aiRequests) : aiRequests[k].outcome = null }

\* C30: at most one request to /api/ai is in flight at a time, and while
\* the form is shown isLoading is true only while a request is in flight
\* (every request then ends with isLoading false and a message in
\* aiSuggestion).
C30_OneRequestInFlight ==
    /\ Cardinality(InFlight) <= 1
    /\ (formShown /\ isLoading) => InFlight # {}

====
